---- MODULE Spec2Model ----
(***************************************************************************)
(* DocGen-Pro front end (src/frontend/app.js): the five editable           *)
(* collections behind the resume form, the payload assembly of             *)
(* generateDocument and the life cycle of a generation request.            *)
(*                                                                         *)
(* A text is a sequence of one-character strings, so that trim, split and  *)
(* join are computed character by character as the JavaScript built-ins    *)
(* compute them.  Array indices are JavaScript indices (from 0).           *)
(***************************************************************************)
EXTENDS Integers, Sequences, FiniteSets, TLC

VARIABLES
    state,        \* the five collections                      (app.js:6-12)
    value,        \* .value of every input element, by element id
    rendered,     \* the entries drawn in each list container  (app.js:70-81)
    currentMode,  \* 'manual' or 'guided'                      (app.js:3)
    docType,      \* .value of the doc-type select
    display,      \* style.display of the elements the code shows and hides
    btn,          \* the .generate-btn element: innerHTML and disabled
    pdfLink,      \* the download-pdf anchor: href and download
    calls,        \* the activations of generateDocument that are suspended
    sent,         \* number of fetch requests issued so far
    last,         \* the event handled last: what it was and what it alerted
    edited        \* the collection as it was before the edit handled last

vars == <<state, value, rendered, currentMode, docType, display, btn, pdfLink,
          calls, sent, last, edited>>

storeVars == <<state, value, rendered>>
pageVars == <<currentMode, docType, display>>
requestVars == <<btn, pdfLink, calls, sent>>

-----------------------------------------------------------------------------
(* Bounds *)

\* total number of items held by the five collections together
MaxItems == 2
\* number of generation requests issued in one run
MaxRequests == 2

-----------------------------------------------------------------------------
(* Texts and the String / Array built-ins the code uses *)

SP == " "
NL == "\n"

IsWhite(c) == c \in {SP, NL}

RECURSIVE trimStart(_)
trimStart(s) ==
    IF s = <<>> THEN <<>>
    ELSE IF IsWhite(Head(s)) THEN trimStart(Tail(s)) ELSE s

RECURSIVE trimEnd(_)
trimEnd(s) ==
    IF s = <<>> THEN <<>>
    ELSE IF IsWhite(s[Len(s)]) THEN trimEnd(SubSeq(s, 1, Len(s) - 1)) ELSE s

\* String.prototype.trim
trim(s) == trimEnd(trimStart(s))

\* a text is truthy when it is not the empty string
Truthy(s) == s # <<>>

\* String.prototype.split(sep) for a one-character separator
RECURSIVE split(_, _)
split(s, sep) ==
    IF \A i \in 1..Len(s) : s[i] # sep THEN <<s>>
    ELSE LET i == CHOOSE j \in 1..Len(s) :
                      s[j] = sep /\ \A k \in 1..(j - 1) : s[k] # sep
         IN  <<SubSeq(s, 1, i - 1)>> \o split(SubSeq(s, i + 1, Len(s)), sep)

\* join() called without its separator: a comma is used
RECURSIVE joinDefault(_, _)
joinDefault(items, sep) ==
    IF items = <<>> THEN <<>>
    ELSE IF Len(items) = 1 THEN items[1]
    ELSE items[1] \o <<",">> \o joinDefault(Tail(items), sep)

\* Array.prototype.join(sep) of an array of texts
RECURSIVE join(_, _)
join(items, sep) ==
    IF items = <<>> THEN <<>>
    ELSE IF Len(items) = 1 THEN items[1]
    ELSE items[1] \o <<sep>> \o join(Tail(items), sep)

\* the bullets split on line breaks but not filtered
bulletsOfUnfiltered(text) == split(text, NL)

\* bullets.value.split('\n').filter(x => x.trim())
bulletsOf(text) == SelectSeq(split(text, NL), LAMBDA x : Truthy(trim(x)))

\* items[index]: the element, or undefined outside the array
InRange(items, index) == 0 <= index /\ index < Len(items)
At(items, index) == items[index + 1]

\* String(undefined), what an input shows when .value is assigned undefined
UndefinedText == <<"u", "n", "d", "e", "f", "i", "n", "e", "d">>

\* Array.prototype.splice(start, deleteCount): the array that is left
spliceStart(items, start) ==
    IF start < 0
    THEN (IF Len(items) + start < 0 THEN 0 ELSE Len(items) + start)
    ELSE (IF start > Len(items) THEN Len(items) ELSE start)

spliceCount(items, start, deleteCount) ==
    LET room == Len(items) - spliceStart(items, start)
        want == IF deleteCount < 0 THEN 0 ELSE deleteCount
    IN  IF want < room THEN want ELSE room

splice(items, start, deleteCount) ==
    LET from == spliceStart(items, start)
        n    == spliceCount(items, start, deleteCount)
    IN  SubSeq(items, 1, from) \o SubSeq(items, from + n + 1, Len(items))

\* Array.prototype.push
push(items, item) == Append(items, item)

-----------------------------------------------------------------------------
(* Elements of the page *)

Collections == {"skills", "achievements", "experience", "projects", "education"}

ListIds == {"skills-list", "ach-list", "experience-list", "project-list", "edu-list"}

\* the collection each list container shows
CollectionOf(listId) ==
    CASE listId = "skills-list"     -> "skills"
      [] listId = "ach-list"        -> "achievements"
      [] listId = "experience-list" -> "experience"
      [] listId = "project-list"    -> "projects"
      [] listId = "edu-list"        -> "education"

\* the input elements each add handler reads
FormOf(listId) ==
    CASE listId = "skills-list"     -> {"new-skill"}
      [] listId = "ach-list"        -> {"new-ach"}
      [] listId = "experience-list" -> {"exp-title", "exp-company", "exp-period", "exp-bullets"}
      [] listId = "project-list"    -> {"proj-name", "proj-stack", "proj-desc"}
      [] listId = "edu-list"        -> {"edu-degree", "edu-institute", "edu-year", "edu-grade"}

StoreInputs == UNION {FormOf(l) : l \in ListIds}

\* every other input element generateDocument reads
BaseInputs == {"field-name", "field-email", "field-phone", "field-location"}

ScalarInputs ==
    BaseInputs \cup
    {"ai-context", "field-summary",
     "sop-intro", "sop-academic", "sop-research", "sop-why-program", "sop-goals",
     "sop-conclusion",
     "letter-sender-name", "letter-sender-addr", "letter-receiver-name",
     "letter-receiver-addr", "letter-salutation", "letter-subject", "letter-date",
     "letter-body",
     "cont-party-a", "cont-party-b", "cont-date-a", "cont-date-b", "cont-scope",
     "cont-resp", "cont-payment", "cont-confidentiality", "cont-termination",
     "rep-title", "rep-author", "rep-date", "rep-summary", "rep-objectives",
     "rep-methodology", "rep-findings", "rep-recs", "rep-conclusion"}

InputIds == StoreInputs \cup ScalarInputs

-----------------------------------------------------------------------------
(* What the user types.  A form is filled in one step, with one of a few   *)
(* contents: empty, blank in a required field, and two valid contents that *)
(* carry surrounding white space.                                          *)

SkillTexts == {<<>>, <<SP>>, <<"a">>, <<SP, "b", SP>>}

AchTexts == {<<>>, <<SP>>, <<"a", SP>>, <<"b">>}

ExpFills ==
    { [title |-> <<>>, company |-> <<>>, period |-> <<>>, bullets |-> <<>>],
      [title |-> <<SP>>, company |-> <<"c">>, period |-> <<"p">>, bullets |-> <<"x">>],
      [title |-> <<"t">>, company |-> <<SP>>, period |-> <<>>, bullets |-> <<>>],
      [title |-> <<SP, "t">>, company |-> <<"c", SP>>, period |-> <<SP, "p", SP>>,
       bullets |-> <<"x", NL, SP, NL, SP, "y", NL>>],
      [title |-> <<"u">>, company |-> <<"c">>, period |-> <<>>, bullets |-> <<>>] }

ProjFills ==
    { [name |-> <<>>, stack |-> <<>>, desc |-> <<>>],
      [name |-> <<SP>>, stack |-> <<"s">>, desc |-> <<"d">>],
      [name |-> <<SP, "n">>, stack |-> <<"s", SP>>, desc |-> <<SP, "d", SP>>],
      [name |-> <<"m">>, stack |-> <<>>, desc |-> <<>>] }

EduFills ==
    { [degree |-> <<>>, institute |-> <<>>, year |-> <<>>, grade |-> <<>>],
      [degree |-> <<SP>>, institute |-> <<"i">>, year |-> <<"y">>, grade |-> <<"g">>],
      [degree |-> <<SP, "d", SP>>, institute |-> <<SP, "i">>, year |-> <<"y", SP>>,
       grade |-> <<SP, "g", SP>>],
      [degree |-> <<"e">>, institute |-> <<>>, year |-> <<>>, grade |-> <<>>] }

\* the contents a form can be given, as element id -> text
Fills(listId) ==
    CASE listId = "skills-list" -> {("new-skill" :> t) : t \in SkillTexts}
      [] listId = "ach-list" -> {("new-ach" :> t) : t \in AchTexts}
      [] listId = "experience-list" ->
            {("exp-title" :> f.title) @@ ("exp-company" :> f.company) @@
             ("exp-period" :> f.period) @@ ("exp-bullets" :> f.bullets) : f \in ExpFills}
      [] listId = "project-list" ->
            {("proj-name" :> f.name) @@ ("proj-stack" :> f.stack) @@
             ("proj-desc" :> f.desc) : f \in ProjFills}
      [] listId = "edu-list" ->
            {("edu-degree" :> f.degree) @@ ("edu-institute" :> f.institute) @@
             ("edu-year" :> f.year) @@ ("edu-grade" :> f.grade) : f \in EduFills}

FormEmpty(listId) == \A id \in FormOf(listId) : value[id] = <<>>

-----------------------------------------------------------------------------
(* Rendering *)

\* what renderList draws for one item: the renderer's output and the
\* arguments baked into the two onclick attributes
Entry(id, index, html) ==
    [html |-> html, edit |-> <<id, index>>, remove |-> <<id, index>>]

renderText(item) == item
renderExp(item) == <<item.title, item.company>>
renderProj(item) == <<item.name, item.tech_stack>>
renderEdu(item) ==
    <<item.degree, item.institute, IF Truthy(item.grade) THEN item.grade ELSE <<>> >>

\* the renderer refreshLists passes for each list
renderer(id, item) ==
    CASE id = "skills-list"     -> renderText(item)
      [] id = "ach-list"        -> renderText(item)
      [] id = "experience-list" -> renderExp(item)
      [] id = "project-list"    -> renderProj(item)
      [] id = "edu-list"        -> renderEdu(item)

\* renderList numbering the entries from one
renderListOneBased(id, items) ==
    [i \in 1..Len(items) |-> Entry(id, i, renderer(id, items[i]))]

renderList(id, items) ==
    [i \in 1..Len(items) |-> Entry(id, i - 1, renderer(id, items[i]))]

refreshLists(st) ==
    [id \in ListIds |-> renderList(id, st[CollectionOf(id)])]

-----------------------------------------------------------------------------
(* The handled event, kept for stating what each handler did *)

NoAlert == <<>>

Event(op, listId, index, alert) ==
    [op |-> op, listId |-> listId, index |-> index, alert |-> alert]

NoEdit == [listId |-> "", index |-> 0 - 1, before |-> <<>>, readded |-> FALSE]

\* an add on the list whose item the preceding event took out for editing
\* keeps the record of that edit, marked; any other event drops it
afterAdd(listId) ==
    IF edited.listId = listId /\ ~edited.readded
    THEN [edited EXCEPT !.readded = TRUE]
    ELSE NoEdit

TotalItems(st) ==
    Len(st.skills) + Len(st.achievements) + Len(st.experience) +
    Len(st.projects) + Len(st.education)

-----------------------------------------------------------------------------
(* Typing into a form *)

fillForm(listId, fill) ==
    /\ \A other \in ListIds \ {listId} : FormEmpty(other)
    /\ value' = [id \in InputIds |-> IF id \in DOMAIN fill THEN fill[id] ELSE value[id]]
    /\ value' # value
    /\ last' = Event("input", listId, 0 - 1, NoAlert)
    /\ edited' = NoEdit
    /\ UNCHANGED <<state, rendered, pageVars, requestVars>>

-----------------------------------------------------------------------------
(* The add handlers *)

\* addSkill pushing the input as typed, untrimmed
addSkillUntrimmed ==
    LET input == value["new-skill"] IN
    /\ Truthy(trim(input)) => TotalItems(state) < MaxItems
    /\ IF Truthy(trim(input))
       THEN /\ state' = [state EXCEPT !.skills = push(@, input)]
            /\ value' = [value EXCEPT !["new-skill"] = <<>>]
            /\ rendered' = refreshLists(state')
       ELSE UNCHANGED storeVars
    /\ last' = Event("add", "skills-list", 0 - 1, NoAlert)
    /\ edited' = afterAdd("skills-list")
    /\ UNCHANGED <<pageVars, requestVars>>

addSkill ==
    LET input == value["new-skill"] IN
    /\ Truthy(trim(input)) => TotalItems(state) < MaxItems
    /\ IF Truthy(trim(input))
       THEN /\ state' = [state EXCEPT !.skills = push(@, trim(input))]
            /\ value' = [value EXCEPT !["new-skill"] = <<>>]
            /\ rendered' = refreshLists(state')
       ELSE UNCHANGED storeVars
    /\ last' = Event("add", "skills-list", 0 - 1, NoAlert)
    /\ edited' = afterAdd("skills-list")
    /\ UNCHANGED <<pageVars, requestVars>>

addAch ==
    LET input == value["new-ach"] IN
    /\ Truthy(trim(input)) => TotalItems(state) < MaxItems
    /\ IF Truthy(trim(input))
       THEN /\ state' = [state EXCEPT !.achievements = push(@, trim(input))]
            /\ value' = [value EXCEPT !["new-ach"] = <<>>]
            /\ rendered' = refreshLists(state')
       ELSE UNCHANGED storeVars
    /\ last' = Event("add", "ach-list", 0 - 1, NoAlert)
    /\ edited' = afterAdd("ach-list")
    /\ UNCHANGED <<pageVars, requestVars>>

addExp ==
    LET title   == value["exp-title"]
        company == value["exp-company"]
        period  == value["exp-period"]
        bullets == value["exp-bullets"]
        valid   == Truthy(trim(title)) /\ Truthy(trim(company))
    IN
    /\ valid => TotalItems(state) < MaxItems
    /\ IF valid
       THEN /\ state' = [state EXCEPT !.experience = push(@,
                            [title   |-> trim(title),
                             company |-> trim(company),
                             period  |-> trim(period),
                             bullets |-> bulletsOf(bullets)])]
            /\ value' = [value EXCEPT !["exp-title"] = <<>>, !["exp-company"] = <<>>,
                                      !["exp-period"] = <<>>, !["exp-bullets"] = <<>>]
            /\ rendered' = refreshLists(state')
            /\ last' = Event("add", "experience-list", 0 - 1, NoAlert)
       ELSE /\ UNCHANGED storeVars
            /\ last' = Event("add", "experience-list", 0 - 1,
                             <<"Job Title and Company are required.">>)
    /\ edited' = afterAdd("experience-list")
    /\ UNCHANGED <<pageVars, requestVars>>

addProj ==
    LET name  == value["proj-name"]
        stack == value["proj-stack"]
        desc  == value["proj-desc"]
        valid == Truthy(trim(name))
    IN
    /\ valid => TotalItems(state) < MaxItems
    /\ IF valid
       THEN /\ state' = [state EXCEPT !.projects = push(@,
                            [name        |-> trim(name),
                             tech_stack  |-> trim(stack),
                             description |-> trim(desc)])]
            /\ value' = [value EXCEPT !["proj-name"] = <<>>, !["proj-stack"] = <<>>,
                                      !["proj-desc"] = <<>>]
            /\ rendered' = refreshLists(state')
            /\ last' = Event("add", "project-list", 0 - 1, NoAlert)
       ELSE /\ UNCHANGED storeVars
            /\ last' = Event("add", "project-list", 0 - 1, <<"Project Name is required.">>)
    /\ edited' = afterAdd("project-list")
    /\ UNCHANGED <<pageVars, requestVars>>

\* addEdu clearing the form whether or not the entry was stored
addEduAlwaysClears ==
    LET degree    == value["edu-degree"]
        institute == value["edu-institute"]
        year      == value["edu-year"]
        grade     == value["edu-grade"]
        valid     == Truthy(trim(degree))
    IN
    /\ valid => TotalItems(state) < MaxItems
    /\ value' = [value EXCEPT !["edu-degree"] = <<>>, !["edu-institute"] = <<>>,
                              !["edu-year"] = <<>>, !["edu-grade"] = <<>>]
    /\ IF valid
       THEN /\ state' = [state EXCEPT !.education = push(@,
                            [degree    |-> trim(degree),
                             institute |-> trim(institute),
                             year      |-> trim(year),
                             grade     |-> trim(grade)])]
            /\ rendered' = refreshLists(state')
            /\ last' = Event("add", "edu-list", 0 - 1, NoAlert)
       ELSE /\ UNCHANGED <<state, rendered>>
            /\ last' = Event("add", "edu-list", 0 - 1, <<"Degree is required.">>)
    /\ edited' = afterAdd("edu-list")
    /\ UNCHANGED <<pageVars, requestVars>>

addEdu ==
    LET degree    == value["edu-degree"]
        institute == value["edu-institute"]
        year      == value["edu-year"]
        grade     == value["edu-grade"]
        valid     == Truthy(trim(degree))
    IN
    /\ valid => TotalItems(state) < MaxItems
    /\ IF valid
       THEN /\ state' = [state EXCEPT !.education = push(@,
                            [degree    |-> trim(degree),
                             institute |-> trim(institute),
                             year      |-> trim(year),
                             grade     |-> trim(grade)])]
            /\ value' = [value EXCEPT !["edu-degree"] = <<>>, !["edu-institute"] = <<>>,
                                      !["edu-year"] = <<>>, !["edu-grade"] = <<>>]
            /\ rendered' = refreshLists(state')
            /\ last' = Event("add", "edu-list", 0 - 1, NoAlert)
       ELSE /\ UNCHANGED storeVars
            /\ last' = Event("add", "edu-list", 0 - 1, <<"Degree is required.">>)
    /\ edited' = afterAdd("edu-list")
    /\ UNCHANGED <<pageVars, requestVars>>

-----------------------------------------------------------------------------
(* editItem and removeItem *)

\* the fields of an item as editItem writes them into the form
formOfText(id, item) == (id :> item)

\* formOfExp joining the bullets with spaces
formOfExpSpaces(item) ==
    ("exp-title" :> item.title) @@ ("exp-company" :> item.company) @@
    ("exp-period" :> item.period) @@ ("exp-bullets" :> join(item.bullets, SP))

formOfExp(item) ==
    ("exp-title" :> item.title) @@ ("exp-company" :> item.company) @@
    ("exp-period" :> item.period) @@ ("exp-bullets" :> join(item.bullets, NL))

formOfProj(item) ==
    ("proj-name" :> item.name) @@ ("proj-stack" :> item.tech_stack) @@
    ("proj-desc" :> item.description)

formOfEdu(item) ==
    ("edu-degree" :> item.degree) @@ ("edu-institute" :> item.institute) @@
    ("edu-year" :> item.year) @@
    ("edu-grade" :> IF Truthy(item.grade) THEN item.grade ELSE <<>>)

formOfItem(listId, item) ==
    CASE listId = "skills-list"     -> formOfText("new-skill", item)
      [] listId = "ach-list"        -> formOfText("new-ach", item)
      [] listId = "experience-list" -> formOfExp(item)
      [] listId = "project-list"    -> formOfProj(item)
      [] listId = "edu-list"        -> formOfEdu(item)

\* the lists whose items are texts: item = undefined is written into the input
\* as a text; in the other lists reading a field of undefined throws
TextLists == {"skills-list", "ach-list"}

editItem(listId, index) ==
    LET c     == CollectionOf(listId)
        items == state[c]
    IN
    /\ listId \in ListIds
    /\ IF InRange(items, index)
       THEN LET form == formOfItem(listId, At(items, index)) IN
            /\ value' = [id \in InputIds |->
                            IF id \in DOMAIN form THEN form[id] ELSE value[id]]
            /\ state' = [state EXCEPT ![c] = splice(items, index, 1)]
            /\ rendered' = refreshLists(state')
            /\ edited' = [listId |-> listId, index |-> index, before |-> items,
                        readded |-> FALSE]
       ELSE IF listId \in TextLists
       THEN /\ value' = [value EXCEPT ![CHOOSE id \in FormOf(listId) : TRUE] = UndefinedText]
            /\ state' = [state EXCEPT ![c] = splice(items, index, 1)]
            /\ rendered' = refreshLists(state')
            /\ edited' = NoEdit
       ELSE \* TypeError: the handler stops at the first field of undefined
            /\ UNCHANGED storeVars
            /\ edited' = NoEdit
    /\ last' = Event("edit", listId, index, NoAlert)
    /\ UNCHANGED <<pageVars, requestVars>>

\* removeItem without its listId tests: every collection is spliced
removeItemEveryList(listId, index) ==
    /\ listId \in ListIds
    /\ state' = [c \in DOMAIN state |-> splice(state[c], index, 1)]
    /\ rendered' = refreshLists(state')
    /\ last' = Event("remove", listId, index, NoAlert)
    /\ edited' = NoEdit
    /\ UNCHANGED <<value, pageVars, requestVars>>

\* removeItem with splice(index): everything from index on is removed
removeItemToEnd(listId, index) ==
    LET c == CollectionOf(listId) IN
    /\ listId \in ListIds
    /\ state' = [state EXCEPT ![c] = splice(state[c], index, Len(state[c]))]
    /\ rendered' = refreshLists(state')
    /\ last' = Event("remove", listId, index, NoAlert)
    /\ edited' = NoEdit
    /\ UNCHANGED <<value, pageVars, requestVars>>

removeItem(listId, index) ==
    LET c == CollectionOf(listId) IN
    /\ listId \in ListIds
    /\ state' = [state EXCEPT ![c] = splice(state[c], index, 1)]
    /\ rendered' = refreshLists(state')
    /\ last' = Event("remove", listId, index, NoAlert)
    /\ edited' = NoEdit
    /\ UNCHANGED <<value, pageVars, requestVars>>

-----------------------------------------------------------------------------
(* The page as loaded *)

DocTypes == {"resume", "sop", "letter", "contract", "report"}
Modes == {"manual", "guided"}

Sections == {"inputs-resume", "inputs-sop", "inputs-letter", "inputs-contract",
             "inputs-report"}

\* the change listener of the doc-type select: the sections' display
sectionsFor(type) ==
    [id \in Sections |->
        IF id = "inputs-" \o type THEN "block" ELSE "none"]

IdleLabel == "Generate"
BusyLabel == "<i class=\"fa-solid fa-spinner fa-spin\"></i> Generating..."

\* modeConfig: the header shown for each mode
modeConfig ==
    [manual |-> [title |-> "Manual Creation",
                 desc  |-> "Fill in the details yourself. Exact output."],
     guided |-> [title |-> "AI Assisted Creation",
                 desc  |-> "Provide rough notes/points for each section, and AI will rewrite and format them professionally."]]

headerFor(mode) ==
    ("mode-title" :> modeConfig[mode].title) @@ ("mode-desc" :> modeConfig[mode].desc) @@
    ("nav-active" :> mode)

contextFor(mode) ==
    ("ai-context-container" :> IF mode = "guided" THEN "block" ELSE "none")

Init ==
    /\ state = [skills |-> <<>>, experience |-> <<>>, projects |-> <<>>,
                education |-> <<>>, achievements |-> <<>>]
    /\ value = [id \in InputIds |-> <<>>]
    /\ rendered = [id \in ListIds |-> <<>>]
    /\ currentMode = "manual"
    /\ docType = "resume"
    /\ display = sectionsFor(docType) @@ headerFor("manual") @@ contextFor("manual") @@
                 ("result-area" :> "none") @@ ("download-docx" :> "")
    /\ btn = [innerHTML |-> IdleLabel, disabled |-> FALSE]
    /\ pdfLink = [href |-> <<>>, download |-> <<>>]
    /\ calls = <<>>
    /\ sent = 0
    /\ last = Event("load", "", 0 - 1, NoAlert)
    /\ edited = NoEdit

-----------------------------------------------------------------------------
(* The user's events on the collections.  An edit or remove click comes    *)
(* from a button of a rendered entry and carries the arguments baked into  *)
(* that entry.                                                             *)

TypeForm == \E listId \in ListIds : \E fill \in Fills(listId) : fillForm(listId, fill)

ClickEdit ==
    \E listId \in ListIds : \E i \in 1..Len(rendered[listId]) :
        editItem(rendered[listId][i].edit[1], rendered[listId][i].edit[2])

ClickRemove ==
    \E listId \in ListIds : \E i \in 1..Len(rendered[listId]) :
        removeItem(rendered[listId][i].remove[1], rendered[listId][i].remove[2])

NextStore ==
    \/ TypeForm
    \/ addSkill
    \/ addAch
    \/ addExp
    \/ addProj
    \/ addEdu
    \/ ClickEdit
    \/ ClickRemove

SpecStore == Init /\ [][NextStore]_vars

-----------------------------------------------------------------------------
(* Mode and document type *)

switchMode(mode) ==
    /\ currentMode' = mode
    /\ display' = ("result-area" :> "none") @@ sectionsFor(docType) @@
                  headerFor(mode) @@ contextFor(mode) @@ display
    /\ last' = Event("switchMode", "", 0 - 1, NoAlert)
    /\ edited' = NoEdit
    /\ UNCHANGED <<storeVars, docType, requestVars>>

\* the user picks a document type: the select changes and its listener runs
changeDocType(type) ==
    /\ docType' = type
    /\ display' = sectionsFor(type) @@ display
    /\ last' = Event("change", "", 0 - 1, NoAlert)
    /\ edited' = NoEdit
    /\ UNCHANGED <<storeVars, currentMode, requestVars>>

\* the user types into a plain input (here the AI-context input, the one plain
\* input whose text decides more than its own payload value); the AI-context
\* input can be typed into only while its container is shown
ScalarTexts == {<<>>, <<"n">>}
TypedScalars == {"ai-context"}

typeScalar(id, text) ==
    /\ id = "ai-context" => display["ai-context-container"] = "block"
    /\ value[id] # text
    /\ value' = [value EXCEPT ![id] = text]
    /\ last' = Event("input", "", 0 - 1, NoAlert)
    /\ edited' = NoEdit
    /\ UNCHANGED <<state, rendered, pageVars, requestVars>>

-----------------------------------------------------------------------------
(* generateDocument: payload assembly *)

\* JSON null, and a JSON string
JNull == [null |-> TRUE, text |-> <<>>]
JText(text) == [null |-> FALSE, text |-> text]

baseFields ==
    [name     |-> value["field-name"],
     email    |-> value["field-email"],
     phone    |-> value["field-phone"],
     location |-> value["field-location"]]

typeFields(type) ==
    CASE type = "resume" ->
            [summary         |-> value["field-summary"],
             skills          |-> state.skills,
             experience_list |-> state.experience,
             education       |-> state.education,
             projects        |-> state.projects,
             achievements    |-> state.achievements]
      [] type = "sop" ->
            [applicant_name      |-> baseFields.name,
             intro               |-> value["sop-intro"],
             academic_background |-> value["sop-academic"],
             research_experience |-> value["sop-research"],
             why_program         |-> value["sop-why-program"],
             career_goals        |-> value["sop-goals"],
             conclusion          |-> value["sop-conclusion"]]
      [] type = "letter" ->
            [sender_name         |-> value["letter-sender-name"],
             sender_address      |-> value["letter-sender-addr"],
             receiver_name       |-> value["letter-receiver-name"],
             receiver_address    |-> value["letter-receiver-addr"],
             receiver_salutation |-> value["letter-salutation"],
             subject             |-> value["letter-subject"],
             date                |-> value["letter-date"],
             body                |-> value["letter-body"]]
      [] type = "contract" ->
            [party_a                |-> value["cont-party-a"],
             party_b                |-> value["cont-party-b"],
             date_a                 |-> value["cont-date-a"],
             date_b                 |-> value["cont-date-b"],
             scope                  |-> value["cont-scope"],
             responsibilities       |-> value["cont-resp"],
             payment_terms          |-> value["cont-payment"],
             confidentiality_clause |-> value["cont-confidentiality"],
             termination_clause     |-> value["cont-termination"]]
      [] type = "report" ->
            [title             |-> value["rep-title"],
             author            |-> value["rep-author"],
             date              |-> value["rep-date"],
             executive_summary |-> value["rep-summary"],
             objectives        |-> value["rep-objectives"],
             methodology       |-> value["rep-methodology"],
             findings          |-> value["rep-findings"],
             recommendations   |-> value["rep-recs"],
             conclusion        |-> value["rep-conclusion"]]
      [] OTHER -> <<>>

\* buildPayload with the resume assignments made for every document type
buildPayloadResumeAlways ==
    [doc_type    |-> docType,
     use_gemini  |-> (currentMode = "guided"),
     ai_context  |-> IF currentMode = "guided" THEN JText(value["ai-context"]) ELSE JNull,
     fields      |-> typeFields(docType) @@ typeFields("resume") @@ baseFields,
     return_docx |-> FALSE]

\* buildPayload sending the AI-context input whatever the mode
buildPayloadAlwaysContext ==
    [doc_type    |-> docType,
     use_gemini  |-> (currentMode = "guided"),
     ai_context  |-> JText(value["ai-context"]),
     fields      |-> typeFields(docType) @@ baseFields,
     return_docx |-> FALSE]

\* the payload as it stands when fetch is called: the type's fields are
\* assigned onto the baseFields object (a later assignment wins)
buildPayload ==
    [doc_type    |-> docType,
     use_gemini  |-> (currentMode = "guided"),
     ai_context  |-> IF currentMode = "guided" THEN JText(value["ai-context"]) ELSE JNull,
     fields      |-> typeFields(docType) @@ baseFields,
     return_docx |-> FALSE]

-----------------------------------------------------------------------------
(* generateDocument: the request *)

\* an activation of generateDocument suspended at an await
Call(id, pc, originalText, payload) ==
    [id |-> id, pc |-> pc, originalText |-> originalText, body |-> payload]

RemoveAt(s, i) == SubSeq(s, 1, i - 1) \o SubSeq(s, i + 1, Len(s))

\* generateDocument leaving the button enabled while the request is out
generateDocumentNoLock ==
    /\ ~btn.disabled
    /\ sent < MaxRequests
    /\ btn' = [innerHTML |-> BusyLabel, disabled |-> FALSE]
    /\ calls' = Append(calls, Call(sent + 1, "fetch", btn.innerHTML, buildPayload))
    /\ sent' = sent + 1
    /\ last' = Event("generate", "", 0 - 1, NoAlert)
    /\ edited' = NoEdit
    /\ UNCHANGED <<storeVars, pageVars, pdfLink>>

\* the click handler up to the await of fetch; a disabled button gets no click
generateDocument ==
    /\ ~btn.disabled
    /\ sent < MaxRequests
    /\ btn' = [innerHTML |-> BusyLabel, disabled |-> TRUE]
    /\ calls' = Append(calls, Call(sent + 1, "fetch", btn.innerHTML, buildPayload))
    /\ sent' = sent + 1
    /\ last' = Event("generate", "", 0 - 1, NoAlert)
    /\ edited' = NoEdit
    /\ UNCHANGED <<storeVars, pageVars, pdfLink>>

\* the clean-up restoring the label but not re-enabling the button
finishStillDisabled(i) ==
    /\ btn' = [innerHTML |-> calls[i].originalText, disabled |-> TRUE]
    /\ calls' = RemoveAt(calls, i)

\* the finally block of activation i
finish(i) ==
    /\ btn' = [innerHTML |-> calls[i].originalText, disabled |-> FALSE]
    /\ calls' = RemoveAt(calls, i)

\* the catch block also showing the result area
failRevealing(i, message) ==
    /\ last' = Event("failed", "", 0 - 1, <<"Error: ", message>>)
    /\ finish(i)
    /\ edited' = NoEdit
    /\ display' = ("result-area" :> "block") @@ display
    /\ UNCHANGED <<storeVars, currentMode, docType, pdfLink, sent>>

\* the catch block of activation i, then finally
fail(i, message) ==
    /\ last' = Event("failed", "", 0 - 1, <<"Error: ", message>>)
    /\ finish(i)
    /\ edited' = NoEdit
    /\ UNCHANGED <<storeVars, pageVars, pdfLink, sent>>

\* fetch serialising the payload only when the response arrives
fetchResolvesLateBody(i, ok) ==
    /\ calls[i].pc = "fetch"
    /\ calls' = [calls EXCEPT ![i].pc = IF ok THEN "blob" ELSE "json",
                              ![i].body = buildPayload]
    /\ last' = Event("response", "", 0 - 1, NoAlert)
    /\ edited' = NoEdit
    /\ UNCHANGED <<storeVars, pageVars, btn, pdfLink, sent>>

\* fetch resolves with a response; the activation goes on to await its body
fetchResolves(i, ok) ==
    /\ calls[i].pc = "fetch"
    /\ calls' = [calls EXCEPT ![i].pc = IF ok THEN "blob" ELSE "json"]
    /\ last' = Event("response", "", 0 - 1, NoAlert)
    /\ edited' = NoEdit
    /\ UNCHANGED <<storeVars, pageVars, btn, pdfLink, sent>>

\* fetch rejects: a transport failure
fetchRejects(i) ==
    /\ calls[i].pc = "fetch"
    /\ fail(i, "Failed to fetch")

\* the error bodies a non-success response can carry
ErrorBodies ==
    { [json |-> "object", detail |-> "Quota exceeded"],
      [json |-> "object", detail |-> ""],
      [json |-> "null", detail |-> ""] }

\* the message of the Error thrown for an error body
errorMessage(err) ==
    IF err.json = "null" THEN "Cannot read properties of null"
    ELSE IF err.detail # "" THEN err.detail ELSE "Generation failed"

jsonResolves(i, err) ==
    /\ calls[i].pc = "json"
    /\ fail(i, errorMessage(err))

\* the error body is not JSON
jsonRejects(i) ==
    /\ calls[i].pc = "json"
    /\ fail(i, "Unexpected token")

\* the object URL made for the blob of request id
objectURL(id) == <<"blob:", id>>

\* the success path also emptying the collections and the inputs
blobResolvesClearing(i) ==
    /\ calls[i].pc = "blob"
    /\ pdfLink' = [href |-> objectURL(calls[i].id),
                   download |-> <<calls[i].body.doc_type, "_now.pdf">>]
    /\ display' = ("download-docx" :> "none") @@ ("result-area" :> "block") @@ display
    /\ finish(i)
    /\ last' = Event("succeeded", "", 0 - 1, NoAlert)
    /\ edited' = NoEdit
    /\ state' = [c \in DOMAIN state |-> <<>>]
    /\ value' = [id \in InputIds |-> <<>>]
    /\ rendered' = refreshLists(state')
    /\ UNCHANGED <<currentMode, docType, sent>>

blobResolves(i) ==
    /\ calls[i].pc = "blob"
    /\ pdfLink' = [href |-> objectURL(calls[i].id),
                   download |-> <<calls[i].body.doc_type, "_now.pdf">>]
    /\ display' = ("download-docx" :> "none") @@ ("result-area" :> "block") @@ display
    /\ finish(i)
    /\ last' = Event("succeeded", "", 0 - 1, NoAlert)
    /\ edited' = NoEdit
    /\ UNCHANGED <<storeVars, currentMode, docType, sent>>

blobRejects(i) ==
    /\ calls[i].pc = "blob"
    /\ fail(i, "Failed to fetch")

-----------------------------------------------------------------------------
(* The whole page *)

SwitchMode == \E mode \in Modes : switchMode(mode)
ChangeDocType == \E type \in DocTypes : changeDocType(type)
TypeScalar == \E id \in TypedScalars : \E text \in ScalarTexts : typeScalar(id, text)
FetchResolves == \E i \in 1..Len(calls) : \E ok \in BOOLEAN : fetchResolves(i, ok)
FetchRejects == \E i \in 1..Len(calls) : fetchRejects(i)
JsonResolves == \E i \in 1..Len(calls) : \E err \in ErrorBodies : jsonResolves(i, err)
JsonRejects == \E i \in 1..Len(calls) : jsonRejects(i)
BlobResolves == \E i \in 1..Len(calls) : blobResolves(i)
BlobRejects == \E i \in 1..Len(calls) : blobRejects(i)

NextRequest ==
    \/ SwitchMode
    \/ ChangeDocType
    \/ TypeScalar
    \/ generateDocument
    \/ FetchResolves
    \/ FetchRejects
    \/ JsonResolves
    \/ JsonRejects
    \/ BlobResolves
    \/ BlobRejects

Next == NextStore \/ NextRequest

Spec == Init /\ [][Next]_vars

SpecRequest == Init /\ [][NextRequest]_vars

-----------------------------------------------------------------------------
(* Vocabulary of the properties, stated without the handlers' own helpers *)

NonBlank(s) == \E i \in 1..Len(s) : ~IsWhite(s[i])

\* t is s without its leading and trailing white space
IsTrimOf(t, s) ==
    \E i \in 1..(Len(s) + 1) : \E j \in 0..Len(s) :
        /\ t = SubSeq(s, i, j)
        /\ \A k \in 1..(i - 1) : IsWhite(s[k])
        /\ \A k \in (j + 1)..Len(s) : IsWhite(s[k])
        /\ t # <<>> => ~IsWhite(t[1]) /\ ~IsWhite(t[Len(t)])

\* the required inputs of the form are not blank
PassesValidation(listId) ==
    CASE listId = "skills-list"     -> NonBlank(value["new-skill"])
      [] listId = "ach-list"        -> NonBlank(value["new-ach"])
      [] listId = "experience-list" -> NonBlank(value["exp-title"]) /\ NonBlank(value["exp-company"])
      [] listId = "project-list"    -> NonBlank(value["proj-name"])
      [] listId = "edu-list"        -> NonBlank(value["edu-degree"])

\* item is the item the form's inputs describe
BuiltFromInputs(listId, item) ==
    CASE listId = "skills-list" -> IsTrimOf(item, value["new-skill"])
      [] listId = "ach-list" -> IsTrimOf(item, value["new-ach"])
      [] listId = "experience-list" ->
            /\ DOMAIN item = {"title", "company", "period", "bullets"}
            /\ IsTrimOf(item.title, value["exp-title"])
            /\ IsTrimOf(item.company, value["exp-company"])
            /\ IsTrimOf(item.period, value["exp-period"])
            /\ item.bullets = bulletsOf(value["exp-bullets"])
      [] listId = "project-list" ->
            /\ DOMAIN item = {"name", "tech_stack", "description"}
            /\ IsTrimOf(item.name, value["proj-name"])
            /\ IsTrimOf(item.tech_stack, value["proj-stack"])
            /\ IsTrimOf(item.description, value["proj-desc"])
      [] listId = "edu-list" ->
            /\ DOMAIN item = {"degree", "institute", "year", "grade"}
            /\ IsTrimOf(item.degree, value["edu-degree"])
            /\ IsTrimOf(item.institute, value["edu-institute"])
            /\ IsTrimOf(item.year, value["edu-year"])
            /\ IsTrimOf(item.grade, value["edu-grade"])

\* new is old without its item at JavaScript index k, the rest in place before
\* k and one position down after it
WithoutItemAt(new, old, k) ==
    /\ Len(new) = Len(old) - 1
    /\ \A i \in 0..(k - 1) : At(new, i) = At(old, i)
    /\ \A i \in k..(Len(new) - 1) : At(new, i) = At(old, i + 1)

\* the form's inputs hold exactly the fields of item
InputsHold(listId, item, inputs) ==
    CASE listId = "skills-list" -> inputs["new-skill"] = item
      [] listId = "ach-list" -> inputs["new-ach"] = item
      [] listId = "experience-list" ->
            /\ inputs["exp-title"] = item.title
            /\ inputs["exp-company"] = item.company
            /\ inputs["exp-period"] = item.period
            /\ IF item.bullets = <<>> THEN inputs["exp-bullets"] = <<>>
               ELSE split(inputs["exp-bullets"], NL) = item.bullets
      [] listId = "project-list" ->
            /\ inputs["proj-name"] = item.name
            /\ inputs["proj-stack"] = item.tech_stack
            /\ inputs["proj-desc"] = item.description
      [] listId = "edu-list" ->
            /\ inputs["edu-degree"] = item.degree
            /\ inputs["edu-institute"] = item.institute
            /\ inputs["edu-year"] = item.year
            /\ inputs["edu-grade"] = item.grade

AddHandled(listId) == last'.op = "add" /\ last'.listId = listId

-----------------------------------------------------------------------------
(* C1: an add that passes validation lengthens its collection by exactly   *)
(* one, puts the item built from the trimmed inputs last, and leaves the   *)
(* items stored before unchanged and in the same order.                    *)
C1_AddAppends ==
    [][\A listId \in ListIds :
          (AddHandled(listId) /\ PassesValidation(listId)) =>
              LET old == state[CollectionOf(listId)]
                  new == state'[CollectionOf(listId)]
              IN  /\ Len(new) = Len(old) + 1
                  /\ SubSeq(new, 1, Len(old)) = old
                  /\ BuiltFromInputs(listId, new[Len(new)])]_vars

\* a second experience entry has just been added behind a first one
C1_Witness ==
    /\ last.op = "add" /\ last.listId = "experience-list"
    /\ FormEmpty("experience-list")
    /\ Len(state.experience) = 2
    /\ state.experience[1].title = <<"u">>
    /\ state.experience[2] = [title |-> <<"t">>, company |-> <<"c">>, period |-> <<"p">>,
                              bullets |-> << <<"x">>, <<SP, "y">> >>]

(* C2: a remove at a valid index k removes exactly the item at k: the      *)
(* length drops by one, the items before k stay in place, the items after  *)
(* k move down by one.                                                     *)
C2_RemoveExact ==
    [][\A listId \in ListIds :
          (/\ last'.op = "remove" /\ last'.listId = listId
           /\ InRange(state[CollectionOf(listId)], last'.index)) =>
              WithoutItemAt(state'[CollectionOf(listId)], state[CollectionOf(listId)],
                            last'.index)]_vars

\* skills "a", "b": index 0 has just been removed and "b" is what is left
C2_Witness ==
    /\ last.op = "remove" /\ last.listId = "skills-list" /\ last.index = 0
    /\ state.skills = << <<"b">> >>

(* C3: an edit at a valid index k removes exactly the item at k and sets   *)
(* the inputs of the collection's form to exactly the removed item's       *)
(* fields (bullets joined by line breaks, grade or the empty text).        *)
C3_EditExtracts ==
    [][\A listId \in ListIds :
          (/\ last'.op = "edit" /\ last'.listId = listId
           /\ InRange(state[CollectionOf(listId)], last'.index)) =>
              LET old == state[CollectionOf(listId)]
              IN  /\ WithoutItemAt(state'[CollectionOf(listId)], old, last'.index)
                  /\ InputsHold(listId, At(old, last'.index), value')]_vars

\* the first of two experience entries, one with two bullets, is in the form
C3_Witness ==
    /\ last.op = "edit" /\ last.listId = "experience-list" /\ last.index = 0
    /\ Len(state.experience) = 1
    /\ value["exp-bullets"] = <<"x", NL, SP, "y">>
    /\ value["exp-period"] = <<"p">>

(* C4: an edit at a valid index k followed at once by the add of the same  *)
(* collection gives back a collection of the original length: the other    *)
(* items in their order, then an item equal to the one taken out.          *)
C4_EditThenAdd ==
    edited.readded =>
        LET old == edited.before
            new == state[CollectionOf(edited.listId)]
            k   == edited.index
        IN  /\ Len(new) = Len(old)
            /\ new[Len(new)] = At(old, k)
            /\ \A i \in 0..(k - 1) : At(new, i) = At(old, i)
            /\ \A i \in k..(Len(old) - 2) : At(new, i) = At(old, i + 1)

\* the entry with bullets was first of two, and is now last
C4_Witness ==
    /\ edited.readded /\ edited.listId = "experience-list" /\ edited.index = 0
    /\ Len(edited.before) = 2
    /\ edited.before[1].bullets = << <<"x">>, <<SP, "y">> >>
    /\ edited.before[2].title = <<"u">>
    /\ state.experience[1].title = <<"u">>

(* C5: an add whose validation fails changes no collection and no input.   *)
C5_RejectedAddNoMutation ==
    [][\A listId \in ListIds :
          (AddHandled(listId) /\ ~PassesValidation(listId)) =>
              (state' = state /\ value' = value)]_vars

\* an experience with a blank company has just been refused
C5_Witness ==
    /\ last.op = "add" /\ last.listId = "experience-list"
    /\ value["exp-title"] = <<"t">> /\ value["exp-company"] = <<SP>>
    /\ Len(state.skills) = 1

(* C6: every add whose validation fails reports a message to the user,     *)
(* for each of the five collections.                                       *)
C6_RejectedAddAlerts ==
    [][\A listId \in ListIds :
          (AddHandled(listId) /\ ~PassesValidation(listId)) =>
              last'.alert # NoAlert]_vars

-----------------------------------------------------------------------------
(* A request that is out is eventually answered: the promise of fetch, and *)
(* then that of the response body, settles.                                *)

Settle ==
    \/ FetchResolves
    \/ FetchRejects
    \/ JsonResolves
    \/ JsonRejects
    \/ BlobResolves
    \/ BlobRejects

FairSpecRequest == SpecRequest /\ WF_vars(Settle)

\* the keys the claims list for each document type
BaseKeys == {"name", "email", "phone", "location"}

TypeKeys(type) ==
    CASE type = "resume" ->
            {"summary", "skills", "experience_list", "education", "projects", "achievements"}
      [] type = "sop" ->
            {"applicant_name", "intro", "academic_background", "research_experience",
             "why_program", "career_goals", "conclusion"}
      [] type = "letter" ->
            {"sender_name", "sender_address", "receiver_name", "receiver_address",
             "receiver_salutation", "subject", "date", "body"}
      [] type = "contract" ->
            {"party_a", "party_b", "date_a", "date_b", "scope", "responsibilities",
             "payment_terms", "confidentiality_clause", "termination_clause"}
      [] type = "report" ->
            {"title", "author", "date", "executive_summary", "objectives", "methodology",
             "findings", "recommendations", "conclusion"}

\* the step is a submission; Submitted is the payload it sent
Submits == last'.op = "generate"
Submitted == calls'[Len(calls')].body

(* C7: the fields of every submitted payload have exactly the four base    *)
(* keys and the keys of the document type selected at submission, whatever *)
(* types were selected or submitted before.                                *)
C7_FieldKeys ==
    [][Submits =>
          /\ Submitted.doc_type = docType
          /\ DOMAIN Submitted.fields = BaseKeys \cup TypeKeys(docType)]_vars

\* a letter is submitted after a report was generated successfully
C7_Witness ==
    /\ last.op = "generate" /\ sent = 2 /\ Len(calls) = 1
    /\ calls[1].body.doc_type = "letter"
    /\ pdfLink.download = <<"report", "_now.pdf">>

(* C8: the AI flag of a submitted payload is true exactly when the mode at *)
(* submission is guided; when false ai_context is null whatever the        *)
(* AI-context input holds, when true it is that input's current text.      *)
C8_AiContext ==
    [][Submits =>
          /\ Submitted.use_gemini = (currentMode = "guided")
          /\ ~Submitted.use_gemini => Submitted.ai_context = JNull
          /\ Submitted.use_gemini =>
                /\ ~Submitted.ai_context.null
                /\ Submitted.ai_context.text = value["ai-context"]]_vars

\* submitted in manual mode while the AI-context input still holds text
C8_Witness ==
    /\ last.op = "generate" /\ Len(calls) = 1
    /\ currentMode = "manual" /\ value["ai-context"] = <<"n">>
    /\ ~calls[1].body.use_gemini /\ calls[1].body.ai_context.null

(* C9: every submission returns to idle once its request is answered, by a *)
(* success, an error response or a transport failure; with no request out  *)
(* the button is enabled and shows the label it had before submitting.     *)
C9_ReturnsToIdle ==
    /\ [](calls = <<>> => (~btn.disabled /\ btn.innerHTML = IdleLabel))
    /\ (calls # <<>>) ~> (calls = <<>>)

\* a submission has failed and the button is back
C9_Witness ==
    /\ last.op = "failed" /\ last.alert = <<"Error: ", "Generation failed">>
    /\ calls = <<>> /\ sent = 1
    /\ btn = [innerHTML |-> IdleLabel, disabled |-> FALSE]

(* C10: at most one request is out at any time, the button is disabled for *)
(* as long as one is out, and a request is issued by a submission only,    *)
(* one per submission (none when a request fails).                         *)
C10_SingleFlight ==
    /\ [](Len(calls) <= 1 /\ (calls # <<>> => btn.disabled))
    /\ [][IF Submits THEN sent' = sent + 1 /\ Len(calls') = Len(calls) + 1
                     ELSE sent' = sent /\ Len(calls') <= Len(calls)]_vars

\* the second request is out after the first one failed
C10_Witness ==
    /\ sent = 2 /\ Len(calls) = 1 /\ calls[1].id = 2 /\ calls[1].pc = "json"
    /\ btn.disabled /\ btn.innerHTML = BusyLabel

-----------------------------------------------------------------------------
\* the step ends a submission: by the success path, or by the catch block
Succeeds == last'.op = "succeeded"
Fails == last'.op = "failed"

\* the error body carries a detail text
ProvidesDetail(err) == err.json = "object" /\ err.detail # ""

GenericMessage == <<"Error: ", "Generation failed">>

(* C11: a failed submission surfaces exactly one message and a successful  *)
(* one none; for a non-success response the message carries the service's  *)
(* detail text when the error body provides one and the generic text       *)
(* "Generation failed" when it provides none.                              *)
C11_FailureMessages ==
    [][/\ Succeeds => last'.alert = NoAlert
       /\ Fails => last'.alert # NoAlert
       /\ \A i \in 1..Len(calls) :
            /\ \A err \in ErrorBodies :
                  jsonResolves(i, err) =>
                      last'.alert = IF ProvidesDetail(err) THEN <<"Error: ", err.detail>>
                                                           ELSE GenericMessage
            /\ jsonRejects(i) => last'.alert = GenericMessage]_vars

-----------------------------------------------------------------------------
(* editItem and removeItem are global functions: besides the rendered      *)
(* buttons, any caller can invoke them, with any index.  The index just    *)
(* below the array and the one just above it stand for the out-of-range    *)
(* calls; they are made on a list of texts and on a list of records, the   *)
(* two kinds of list editItem tells apart.                                 *)

OutOfRange(items) == {0 - 1, Len(items)}

ContractLists == {"skills-list", "experience-list"}

CallEdit ==
    \E listId \in ContractLists : \E index \in OutOfRange(state[CollectionOf(listId)]) :
        editItem(listId, index)

CallRemove ==
    \E listId \in ContractLists : \E index \in OutOfRange(state[CollectionOf(listId)]) :
        removeItem(listId, index)

NextContract ==
    \/ NextStore
    \/ CallEdit
    \/ CallRemove

SpecContract == Init /\ [][NextContract]_vars

-----------------------------------------------------------------------------
\* the step is a call of op on listId with an index outside the collection
OutOfRangeCall(op, listId) ==
    /\ last'.op = op /\ last'.listId = listId
    /\ ~InRange(state[CollectionOf(listId)], last'.index)

(* C13: a remove with an index outside 0 <= index < length, negative       *)
(* indices included, changes none of the five collections.                 *)
C13_RemoveOutOfRangeNoOp ==
    [][\A listId \in ListIds : OutOfRangeCall("remove", listId) => state' = state]_vars

(* C14: an edit with an index outside 0 <= index < length, negative        *)
(* indices included, changes no collection and no input, for each of the   *)
(* five collections.                                                       *)
C14_EditOutOfRangeNoOp ==
    [][\A listId \in ListIds :
          OutOfRangeCall("edit", listId) => (state' = state /\ value' = value)]_vars

\* the step is the handling of an add, edit or remove addressed to listId
Addressed(listId) == last'.op \in {"add", "edit", "remove"} /\ last'.listId = listId

(* C20: an add, edit or remove addressed to one collection leaves the      *)
(* other four collections unchanged, whether it succeeds, fails validation *)
(* or gets an out-of-range index; an add or edit also leaves the inputs of *)
(* the other collections' forms unchanged.                                 *)
C20_OtherCollectionsUntouched ==
    [][\A listId \in ListIds :
          Addressed(listId) =>
              \A other \in ListIds \ {listId} :
                  /\ state'[CollectionOf(other)] = state[CollectionOf(other)]
                  /\ last'.op \in {"add", "edit"} =>
                        \A id \in FormOf(other) : value'[id] = value[id]]_vars

\* skills was edited at an index below the array while an achievement is
\* stored and the experience form is filled
C20_Witness ==
    /\ last.op = "edit" /\ last.listId = "skills-list" /\ last.index = 0 - 1
    /\ value["new-skill"] = UndefinedText
    /\ Len(state.achievements) = 1
    /\ value["exp-title"] = <<"u">>

-----------------------------------------------------------------------------
\* item has the full shape of an item of the list, its required texts not blank
FullyFormed(listId, item) ==
    CASE listId \in {"skills-list", "ach-list"} -> NonBlank(item)
      [] listId = "experience-list" ->
            /\ DOMAIN item = {"title", "company", "period", "bullets"}
            /\ NonBlank(item.title) /\ NonBlank(item.company)
            /\ \A i \in 1..Len(item.bullets) : NonBlank(item.bullets[i])
      [] listId = "project-list" ->
            /\ DOMAIN item = {"name", "tech_stack", "description"}
            /\ NonBlank(item.name)
      [] listId = "edu-list" ->
            /\ DOMAIN item = {"degree", "institute", "year", "grade"}
            /\ NonBlank(item.degree)

(* C16: every stored item is fully formed: skills and achievements are     *)
(* non-blank texts, an experience has non-blank title and company, a       *)
(* period and bullets none of which is blank, a project a non-blank name   *)
(* with tech_stack and description, an education a non-blank degree with   *)
(* institute, year and a grade that is present, possibly empty.            *)
C16_ItemsFullyFormed ==
    \A listId \in ListIds :
        \A i \in 1..Len(state[CollectionOf(listId)]) :
            FullyFormed(listId, state[CollectionOf(listId)][i])

\* an experience whose bullets lost their blank line, and an education
\* with an empty grade, are stored
C16_Witness ==
    /\ Len(state.experience) = 1 /\ Len(state.education) = 1
    /\ state.experience[1].bullets = << <<"x">>, <<SP, "y">> >>
    /\ state.education[1].grade = <<>>

-----------------------------------------------------------------------------
\* the items of a list that are with the user: those stored, and the one
\* the event just handled took out into the form
Stored(listId) ==
    {state[CollectionOf(listId)][i] : i \in 1..Len(state[CollectionOf(listId)])}

TakenOut(listId) ==
    IF edited.listId = listId /\ ~edited.readded
    THEN {At(edited.before, edited.index)}
    ELSE {}

\* after the step, item is in its collection or held by the form's inputs
KeptAfter(listId, item) ==
    \/ \E i \in 1..Len(state'[CollectionOf(listId)]) :
          state'[CollectionOf(listId)][i] = item
    \/ InputsHold(listId, item, value')

(* C18: editing never loses an item: an add or an edit leaves every item   *)
(* that was stored, or that the edit just before took out, either in its   *)
(* collection or in the inputs of its form; so after two edits in a row    *)
(* both extracted items are still in one of the two places.                *)
C18_EditNeverLoses ==
    [][last'.op \in {"add", "edit"} =>
          \A listId \in ListIds :
              \A item \in Stored(listId) \cup TakenOut(listId) :
                  KeptAfter(listId, item)]_vars

-----------------------------------------------------------------------------
Visible == display["result-area"] = "block"
Reveals == ~Visible /\ display'["result-area"] = "block"

\* the step processes the success of the activation that awaits its blob
SucceedsFor(i) == Succeeds /\ calls[i].pc = "blob" /\ calls' = RemoveAt(calls, i)

(* C17: the result area is revealed only by a step that processes a        *)
(* success, and a failure leaves it as it was; a step that processes a     *)
(* success sets the download reference to the object URL of that response, *)
(* hides the docx control and shows the result area; no other step changes *)
(* the download reference, so while the result area is visible the         *)
(* reference is that of the latest success.                                *)
C17_ResultOnlyOnSuccess ==
    [][/\ Reveals => Succeeds
       /\ Fails => display'["result-area"] = display["result-area"]
       /\ Succeeds =>
             /\ \E i \in 1..Len(calls) :
                   SucceedsFor(i) /\ pdfLink'.href = objectURL(calls[i].id)
             /\ display'["download-docx"] = "none"
             /\ display'["result-area"] = "block"
       /\ ~Succeeds => pdfLink' = pdfLink
       /\ Visible => pdfLink.href # <<>>
       /\ display'["result-area"] = "block" => pdfLink'.href # <<>>]_vars

\* a second success has replaced the reference of the first
C17_Witness ==
    /\ last.op = "succeeded"
    /\ Visible
    /\ display["download-docx"] = "none"
    /\ pdfLink.href = objectURL(2)
    /\ sent = 2

-----------------------------------------------------------------------------
(* A session mixing the events on a collection with mode switches, changes *)
(* of document type and submissions: the skills list stands for the five   *)
(* lists and two document types for the five.                              *)

SessionDocTypes == {"resume", "letter"}

TypeSkill == \E fill \in Fills("skills-list") : fillForm("skills-list", fill)
ChangeSessionDocType == \E type \in SessionDocTypes : changeDocType(type)

NextSession ==
    \/ TypeSkill
    \/ addSkill
    \/ ClickEdit
    \/ ClickRemove
    \/ SwitchMode
    \/ ChangeSessionDocType
    \/ generateDocument
    \/ FetchResolves
    \/ FetchRejects
    \/ JsonResolves
    \/ JsonRejects
    \/ BlobResolves
    \/ BlobRejects

SpecSession == Init /\ [][NextSession]_vars

\* a step of a submission: its start, a response, its failure or its success
SubmissionStep == last'.op \in {"generate", "response", "failed", "succeeded"}

(* C12: no step of a submission changes a collection or an input; a        *)
(* submission starts with the button enabled and its failure leaves the    *)
(* button enabled, so a failed submission with no other event in between   *)
(* ends with the collections, the inputs and the button's enabled state as *)
(* they were just before it.                                               *)
C12_SubmissionLeavesStore ==
    [][/\ SubmissionStep => state' = state /\ value' = value
       /\ Submits => ~btn.disabled
       /\ Fails => ~btn'.disabled]_vars

C12_Witness ==
    /\ last.op = "failed"
    /\ last.alert = GenericMessage
    /\ state.skills = << <<"b">> >>
    /\ value["new-skill"] = <<"a">>
    /\ ~btn.disabled

-----------------------------------------------------------------------------
\* the rendered list of listId shows the collection: as many entries, in
\* the same order, entry i showing item i and its buttons carrying index i
ShowsCollection(listId) ==
    LET items == state[CollectionOf(listId)]
        shown == rendered[listId]
    IN  /\ Len(shown) = Len(items)
        /\ \A i \in 1..Len(items) :
              /\ shown[i].html = renderer(listId, items[i])
              /\ shown[i].edit = <<listId, i - 1>>
              /\ shown[i].remove = <<listId, i - 1>>

RenderedInStep == \A listId \in ListIds : ShowsCollection(listId)

\* the step is an edit or a remove call
Clicked == last'.op \in {"edit", "remove"}

(* C15: between events every rendered list shows its collection: same      *)
(* length, same order, and the edit and remove buttons of entry i carry    *)
(* index i; so every edit or remove click coming from a rendered list      *)
(* carries an index in range for the collection, that of the item shown.   *)
C15_RenderedMatchesStore ==
    [][/\ RenderedInStep
       /\ RenderedInStep'
       /\ Clicked =>
             /\ InRange(state[CollectionOf(last'.listId)], last'.index)
             /\ rendered[last'.listId][last'.index + 1].html =
                   renderer(last'.listId,
                            At(state[CollectionOf(last'.listId)], last'.index))]_vars

\* the first of two skills was taken out for editing while a letter request
\* made in guided mode is out: the second is now shown with index 0
C15_Witness ==
    /\ last.op = "edit"
    /\ last.index = 0
    /\ state.skills = << <<"b">> >>
    /\ Len(rendered["skills-list"]) = 1
    /\ rendered["skills-list"][1].remove = <<"skills-list", 0>>
    /\ Len(calls) = 1
    /\ calls[1].body.doc_type = "letter"
    /\ currentMode = "guided"
-----------------------------------------------------------------------------
\* the activation of request id in a sequence of activations
CallOf(cs, id) == CHOOSE c \in {cs[i] : i \in 1..Len(cs)} : c.id = id
Ids(cs) == {cs[i].id : i \in 1..Len(cs)}

\* the payload assembled from the collections, the inputs, the document
\* type and the mode of the state the step starts in
PayloadNow ==
    [doc_type    |-> docType,
     use_gemini  |-> (currentMode = "guided"),
     ai_context  |-> IF currentMode = "guided" THEN JText(value["ai-context"]) ELSE JNull,
     fields      |-> typeFields(docType) @@ baseFields,
     return_docx |-> FALSE]

(* C19: the body sent for a submission is the payload assembled from the   *)
(* collections, inputs, document type and mode as they are when generate   *)
(* is clicked, and no later step (add, edit, remove, mode switch, change   *)
(* of document type, response) alters the body of a request in flight.     *)
C19_BodyIsSnapshot ==
    [][/\ Submits =>
             /\ Submitted = PayloadNow
             /\ Submitted.doc_type = "resume" => Submitted.fields.skills = state.skills
       /\ \A id \in Ids(calls) \cap Ids(calls') :
             CallOf(calls', id).body = CallOf(calls, id).body]_vars

\* a resume request made in manual mode is in flight after a skill was
\* removed, the mode switched and the document type changed
C19_Witness ==
    /\ Len(calls) = 1
    /\ calls[1].pc = "blob"
    /\ calls[1].body.doc_type = "resume"
    /\ calls[1].body.fields.skills = << <<"a">>, <<"b">> >>
    /\ state.skills = << <<"a">> >>
    /\ ~calls[1].body.use_gemini
    /\ currentMode = "guided"
    /\ docType = "letter"

====
